---------------------------- MODULE Spec2Model ----------------------------
(***************************************************************************)
(* par_streamlines.h: triangulation of wide lines.                         *)
(*                                                                         *)
(* The state is one library context (config + the reusable result mesh     *)
(* with its four pa_ arrays), the heap blocks the library has allocated,   *)
(* the caller's vertex array and the most recent API call.  Every public   *)
(* function is one action.                                                 *)
(*                                                                         *)
(* Floats are modelled by the real numbers they approximate: a value is a  *)
(* normalised fraction <<num, den>>, with <<0,0>> for NaN and <<+-1,0>>    *)
(* for the infinities, so that 0/0, 1/0 and 0*inf behave as in IEEE 754.   *)
(* Rounding is not modelled.  The caller's vertices are drawn from Points, *)
(* whose pairwise distances are integers, so sqrtf is exact on them.       *)
(***************************************************************************)
EXTENDS Integers, Sequences, FiniteSets

\* ------------------------------------------------------------------ bounds
MaxVerts == 4      \* length of the caller's vertex array
MaxDraws == 2      \* draw calls (lines, curves, streamlines) on the context
\* The most spines of length > 1 that fit the caller's array.
MaxSpines == MaxVerts \div 2

\* ------------------------------------------------------------------ floats
Abs(i) == IF i < 0 THEN -i ELSE i
Sign(i) == IF i < 0 THEN -1 ELSE IF i > 0 THEN 1 ELSE 0

RECURSIVE GCD(_, _)
GCD(a, b) == IF b = 0 THEN a ELSE GCD(b, a % b)

\* The float with value n/d; d = 0 gives NaN (n = 0) or an infinity.
Frac(n, d) ==
    IF d = 1 THEN <<n, 1>>
    ELSE IF d = 0 THEN <<Sign(n), 0>>
    ELSE IF n = 0 THEN <<0, 1>>
    ELSE LET g == GCD(Abs(n), Abs(d))
             s == Sign(d)
         IN  <<(s * n) \div g, (s * d) \div g>>

F(i) == <<i, 1>>
NaN == <<0, 0>>
IsNaN(a) == a = NaN
IsInf(a) == a[2] = 0 /\ a[1] # 0
IsFinite(a) == a[2] # 0

FNeg(a) == <<-a[1], a[2]>>
\* The operations take the whole numbers (denominator 1) first: their sums
\* and products are whole, and their quotient is one fraction.
FAdd(a, b) ==
    IF a[2] = 1 /\ b[2] = 1 THEN <<a[1] + b[1], 1>>
    ELSE IF IsNaN(a) \/ IsNaN(b) THEN NaN
    ELSE IF IsInf(a) /\ IsInf(b) THEN (IF a = b THEN a ELSE NaN)
    ELSE IF IsInf(a) THEN a
    ELSE IF IsInf(b) THEN b
    ELSE Frac(a[1] * b[2] + b[1] * a[2], a[2] * b[2])
FSub(a, b) == FAdd(a, FNeg(b))
FMul(a, b) ==
    IF a[2] = 1 /\ b[2] = 1 THEN <<a[1] * b[1], 1>>
    ELSE Frac(a[1] * b[1], a[2] * b[2])
FDiv(a, b) ==
    IF a[2] = 1 /\ b[2] = 1 THEN Frac(a[1], b[1])
    ELSE IF IsNaN(a) \/ IsNaN(b) THEN NaN
    ELSE IF IsInf(a) /\ IsInf(b) THEN NaN
    ELSE IF IsInf(b) THEN F(0)
    ELSE IF IsInf(a) THEN <<a[1] * (IF b[1] < 0 THEN -1 ELSE 1), 0>>
    ELSE Frac(a[1] * b[2], a[2] * b[1])
FLeq(a, b) == IsFinite(a) /\ IsFinite(b) /\ a[1] * b[2] <= b[1] * a[2]

\* sqrtf on the squares of fractions (the only arguments the model produces).
ISqrt(k) == CHOOSE r \in 0..k : r * r = k
sqrtf(a) ==
    IF IsNaN(a) THEN NaN
    ELSE IF IsInf(a) THEN a
    ELSE <<ISqrt(a[1]), ISqrt(a[2])>>

\* ------------------------------------------------------------------ types
\* par_streamlines_position.  All pairwise distances of Points are integers.
Position(x, y) == [x |-> x, y |-> y]
Points == <<Position(F(0), F(0)), Position(F(3), F(0)), Position(F(0), F(4))>>

\* par_streamlines_u_mode
PAR_U_MODE_NORMALIZED_DISTANCE == "NORMALIZED_DISTANCE"
PAR_U_MODE_DISTANCE == "DISTANCE"
PAR_U_MODE_SEGMENT_INDEX == "SEGMENT_INDEX"
PAR_U_MODE_SEGMENT_FRACTION == "SEGMENT_FRACTION"
UModes == {PAR_U_MODE_NORMALIZED_DISTANCE, PAR_U_MODE_DISTANCE,
           PAR_U_MODE_SEGMENT_INDEX, PAR_U_MODE_SEGMENT_FRACTION}

\* par_streamlines_annotation
Annotation(u, v, sx, sy) ==
    [u_along_curve |-> u, v_across_curve |-> v,
     spine_to_edge_x |-> sx, spine_to_edge_y |-> sy]

\* par_streamlines_config: the fields draw_lines reads.
Thicknesses == {F(3)}
Configs == [thickness : Thicknesses, wireframe : BOOLEAN, u_mode : UModes]

\* par_streamlines_spine_list without its vertices pointer, which always points
\* at the caller's array (the variable vertices).
RECURSIVE SumSeq(_)
SumSeq(s) == IF s = <<>> THEN 0 ELSE Head(s) + SumSeq(Tail(s))

SpineLengthTables ==
    {t \in UNION {[1..k -> 0..MaxVerts] : k \in 0..MaxSpines} :
        SumSeq(t) <= MaxVerts}
SpineList(t, nv, c) ==
    [num_vertices |-> nv, num_spines |-> Len(t), spine_lengths |-> t,
     closed |-> c]
\* The lists tried: every table with the right num_vertices, and the tables
\* of lengths > 1 also with num_vertices off by one.
SpineLists ==
    UNION {{SpineList(t, nv, c) :
              nv \in {n \in 0..MaxVerts :
                        \/ n = SumSeq(t)
                        \/ /\ \A k \in 1..Len(t) : t[k] > 1
                           /\ n - SumSeq(t) \in {-1, 1}},
              c \in BOOLEAN} :
           t \in SpineLengthTables}
NoSpines ==
    [num_vertices |-> 0, num_spines |-> -1, spine_lengths |-> <<>>,
     closed |-> FALSE]

\* ------------------------------------------------------------- pa_ arrays
\* A pa_ array: alloc (the pointer is not NULL), the header fields m
\* (capacity) and n (count), and the m elements a.  An element of fresh memory
\* is indeterminate, written Indet; the library never reads one.
Indet == <<0, -1>>
IndetOf(field) ==
    CASE field = "vertex_positions" -> Position(Indet, Indet)
      [] field = "vertex_annotations" -> Annotation(Indet, Indet, Indet, Indet)
      [] field = "vertex_lengths" -> Indet
      [] field = "triangle_indices" -> -1

NullArray == [alloc |-> FALSE, m |-> 0, n |-> 0, a |-> <<>>]

pa_count(a) == IF a.alloc THEN a.n ELSE 0
pa___needgrow(a, n) == ~a.alloc \/ a.n + n >= a.m
pa___growf(arr, increment, field) ==
    LET dbl_cur == IF arr.alloc THEN 2 * arr.m ELSE 0
        min_needed == pa_count(arr) + increment
        m == IF dbl_cur > min_needed THEN dbl_cur ELSE min_needed
    IN  [alloc |-> TRUE, m |-> m, n |-> IF arr.alloc THEN arr.n ELSE 0,
         a |-> arr.a \o [i \in 1..(m - Len(arr.a)) |-> IndetOf(field)]]
pa___maybegrow(a, n, field) ==
    IF pa___needgrow(a, n) THEN pa___growf(a, n, field) ELSE a
pa_add(a, n, field) ==
    LET g == pa___maybegrow(a, n, field) IN [g EXCEPT !.n = g.n + n]

\* A faulty pa_clear that leaves the count alone, so that the next pa_add
\* appends to what the previous call left.
pa_clear_keeps_count(arr) == arr

pa_clear(arr) == IF arr.alloc THEN [arr EXCEPT !.n = 0] ELSE arr
\* pa_free leaves the pointer dangling; what matters is the heap block.
pa_free(heap, arr, field) == IF arr.alloc THEN heap \ {field} ELSE heap

\* ------------------------------------------------------------- draw_lines
Wr(buf, off, val) == [buf EXCEPT ![off + 1] = val]
WrSeq(buf, off, vals) ==
    SubSeq(buf, 1, off) \o vals \o SubSeq(buf, off + Len(vals) + 1, Len(buf))

\* The length of the segment from p to q and its unit normal (-dy, dx) / length.
Segment(p, q) ==
    LET dx == FSub(q.x, p.x)
        dy == FSub(q.y, p.y)
        segment_length == sqrtf(FAdd(FMul(dx, dx), FMul(dy, dy)))
    IN  [segment_length |-> segment_length,
         nx |-> FDiv(FNeg(dy), segment_length),
         ny |-> FDiv(dx, segment_length)]

\* The miter offset between the unit normals pn and n.  With X = pn . n the
\* code computes extent = 0.5 * thickness / sin(pi/2 - acos(X)/2) and
\* invlen = 1 / |pn + n|; over the reals sin(pi/2 - acos(X)/2) = sqrt((1+X)/2)
\* (the code's own NOTE) and |pn + n| = sqrt(2 (1+X)), so that
\* invlen * extent = (thickness / 2) / (1 + X).
Miter(pnx, pny, nx, ny, thickness) ==
    LET X == FAdd(FMul(pnx, nx), FMul(pny, ny))
        invlen_extent == FDiv(FDiv(thickness, F(2)), FAdd(F(1), X))
    IN  [ex |-> FMul(FAdd(pnx, nx), invlen_extent),
         ey |-> FMul(FAdd(pny, ny), invlen_extent)]

\* A faulty wireframe stitch whose 4-tuples end on their third index instead of
\* returning to their first.
StitchWireframe_open(base_index, segment_index) ==
    << base_index + (segment_index - 1) * 2,
       base_index + (segment_index - 1) * 2 + 1,
       base_index + (segment_index - 0) * 2,
       base_index + (segment_index - 0) * 2,
       base_index + (segment_index - 0) * 2,
       base_index + (segment_index - 1) * 2 + 1,
       base_index + (segment_index - 0) * 2 + 1,
       base_index + (segment_index - 0) * 2 + 1 >>

\* The indices of the two triangles between the vertex pairs segment_index - 1
\* and segment_index: four per triangle in wireframe, three when filled.
StitchWireframe(base_index, segment_index) ==
    << base_index + (segment_index - 1) * 2,
       base_index + (segment_index - 1) * 2 + 1,
       base_index + (segment_index - 0) * 2,
       base_index + (segment_index - 1) * 2,
       base_index + (segment_index - 0) * 2,
       base_index + (segment_index - 1) * 2 + 1,
       base_index + (segment_index - 0) * 2 + 1,
       base_index + (segment_index - 0) * 2 >>

\* A faulty filled stitch that takes the pair after the current one as the
\* second pair of the quad.
StitchFilled_next_pair(base_index, segment_index) ==
    << base_index + (segment_index - 1) * 2,
       base_index + (segment_index - 1) * 2 + 1,
       base_index + (segment_index + 1) * 2,
       base_index + (segment_index + 1) * 2,
       base_index + (segment_index - 1) * 2 + 1,
       base_index + (segment_index + 1) * 2 + 1 >>

StitchFilled(base_index, segment_index) ==
    << base_index + (segment_index - 1) * 2,
       base_index + (segment_index - 1) * 2 + 1,
       base_index + (segment_index - 0) * 2,
       base_index + (segment_index - 0) * 2,
       base_index + (segment_index - 1) * 2 + 1,
       base_index + (segment_index - 0) * 2 + 1 >>
Stitch(wireframe, base_index, segment_index) ==
    IF wireframe THEN StitchWireframe(base_index, segment_index)
    ELSE StitchFilled(base_index, segment_index)

\* The running state r of draw_lines holds its local variables by their C
\* names, the element sequences P, A, L, I of the four arrays, and the cursors
\* src_position and dst_* as offsets from the start of their arrays.  It also
\* records the accesses made: reads is the set of offsets at which the caller's
\* array was read, wrote_positions, wrote_annotations, wrote_lengths and
\* wrote_indices the sets of offsets stored to in each of the four arrays.

\* dst_indices[...] = ...; dst_indices += 8 or 6.
WriteIndices(r, wireframe) ==
    [r EXCEPT
       !.I = WrSeq(@, r.dst_indices,
                   Stitch(wireframe, r.base_index, r.segment_index)),
       !.wrote_indices =
          @ \cup (r.dst_indices..
                    (r.dst_indices + (IF wireframe THEN 8 ELSE 6) - 1)),
       !.dst_indices = @ + (IF wireframe THEN 8 ELSE 6)]

\* dst_positions[0], [1] = pos0, pos1; dst_positions += 2.
WritePositions(r, pos0, pos1) ==
    [r EXCEPT
       !.P = Wr(Wr(@, r.dst_positions, pos0), r.dst_positions + 1, pos1),
       !.wrote_positions = @ \cup {r.dst_positions, r.dst_positions + 1},
       !.dst_positions = @ + 2]

\* dst_annotations[0], [1] = (u, +-1, +-ex, +-ey); dst_annotations += 2.
WriteAnnotations(r, u, ex, ey) ==
    [r EXCEPT
       !.A = Wr(Wr(@, r.dst_annotations, Annotation(u, F(1), ex, ey)),
                r.dst_annotations + 1,
                Annotation(u, F(-1), FNeg(ex), FNeg(ey))),
       !.wrote_annotations =
          @ \cup {r.dst_annotations, r.dst_annotations + 1},
       !.dst_annotations = @ + 2]

Plus(p, ex, ey) == Position(FAdd(p.x, ex), FAdd(p.y, ey))
Minus(p, ex, ey) == Position(FSub(p.x, ex), FSub(p.y, ey))

\* Lines 236-247: the first segment and the butt-cap offset.
SpineBegin(r, spine_length, thickness, V) ==
    LET s == Segment(V[r.src_position + 1], V[r.src_position + 2])
    IN  [r EXCEPT
           !.reads = @ \cup {r.src_position, r.src_position + 1,
                             r.src_position + spine_length - 1},
           !.segment_length = s.segment_length,
           !.nx = s.nx, !.ny = s.ny,
           !.first_src_position = V[r.src_position + 1],
           !.last_src_position = V[r.src_position + spine_length],
           !.ex = FDiv(FMul(s.nx, thickness), F(2)),
           !.ey = FDiv(FMul(s.ny, thickness), F(2))]

\* Lines 249-266: closed, the first offset miters the closing segment (from
\* the last vertex to the first) with the first segment.
FirstMiter(r, closed, thickness, V) ==
    IF ~closed THEN r
    ELSE LET s == Segment(r.last_src_position, V[r.src_position + 1])
             e == Miter(s.nx, s.ny, r.nx, r.ny, thickness)
         IN  [r EXCEPT !.ex = e.ex, !.ey = e.ey,
                       !.reads = @ \cup {r.src_position}]

\* Lines 268-296: the first vertex pair.
FirstPair(r, V) ==
    LET p == V[r.src_position + 1]
        w == WriteAnnotations(
               WritePositions(r, Plus(p, r.ex, r.ey), Minus(p, r.ex, r.ey)),
               F(0), r.ex, r.ey)
    IN  [w EXCEPT
           !.reads = @ \cup {r.src_position},
           !.pnx = r.nx, !.pny = r.ny,
           !.first_dst_positions = << Plus(p, r.ex, r.ey),
                                      Minus(p, r.ex, r.ey) >>,
           !.src_position = @ + 1,
           !.distance_along_spine = r.segment_length,
           !.segment_index = 1]

\* Lines 299-357: the body of the loop over the interior vertices.  Its dx, dy,
\* segment_length, nx, ny, ex, ey are locals of the loop body.
InteriorPair(r, thickness, wireframe, V) ==
    LET s == Segment(V[r.src_position + 1], V[r.src_position + 2])
        e == Miter(r.pnx, r.pny, s.nx, s.ny, thickness)
        p == V[r.src_position + 1]
        w == WriteIndices(
               WriteAnnotations(
                 WritePositions(r, Plus(p, e.ex, e.ey), Minus(p, e.ex, e.ey)),
                 r.distance_along_spine, e.ex, e.ey),
               wireframe)
    IN  [w EXCEPT
           !.reads = @ \cup {r.src_position, r.src_position + 1},
           !.src_position = @ + 1,
           !.pnx = s.nx, !.pny = s.ny,
           !.distance_along_spine = FAdd(@, s.segment_length)]

\* Lines 297-358.
RECURSIVE InteriorLoop(_, _, _, _, _)
InteriorLoop(r, spine_length, thickness, wireframe, V) ==
    IF ~(r.segment_index < spine_length - 1) THEN r
    ELSE InteriorLoop(
           [InteriorPair(r, thickness, wireframe, V)
              EXCEPT !.segment_index = @ + 1],
           spine_length, thickness, wireframe, V)

\* Lines 360-380: the last offset, a butt cap on the last segment or, closed,
\* its miter with the closing segment.
LastOffset(r, closed, thickness, V) ==
    IF ~closed
    THEN [r EXCEPT !.ex = FDiv(FMul(r.pnx, thickness), F(2)),
                   !.ey = FDiv(FMul(r.pny, thickness), F(2))]
    ELSE LET s == Segment(V[r.src_position + 1], r.first_src_position)
             e == Miter(r.pnx, r.pny, s.nx, s.ny, thickness)
         IN  [r EXCEPT !.ex = e.ex, !.ey = e.ey,
                       !.reads = @ \cup {r.src_position}]

\* Lines 382-422: the last vertex pair.
LastPair(r, wireframe, V) ==
    LET p == V[r.src_position + 1]
        w == WriteIndices(
               WriteAnnotations(
                 WritePositions(r, Plus(p, r.ex, r.ey), Minus(p, r.ex, r.ey)),
                 r.distance_along_spine, r.ex, r.ey),
               wireframe)
    IN  [w EXCEPT !.reads = @ \cup {r.src_position},
                  !.src_position = @ + 1, !.pnx = r.nx, !.pny = r.ny]

\* Lines 424-463: closed, the seam pair, a copy of the first pair.  ex, ey and
\* segment_length are the variables of lines 246-247 and 239: at this point
\* they hold the last vertex's offset and the FIRST segment's length.
SeamPair(r, closed, wireframe) ==
    IF ~closed THEN r
    ELSE LET w == WriteIndices(
                    WriteAnnotations(
                      WritePositions([r EXCEPT !.segment_index = @ + 1],
                                     r.first_dst_positions[1],
                                     r.first_dst_positions[2]),
                      r.distance_along_spine, r.ex, r.ey),
                    wireframe)
         IN  [w EXCEPT !.distance_along_spine = FAdd(@, r.segment_length)]

\* A faulty fill of vertex_lengths that leaves out the spine's last pair.
FillLengths_without_last_pair(r, nverts) ==
    [r EXCEPT
       !.L = WrSeq(@, r.dst_lengths,
                   [k \in 1..((nverts - 1) * 2) |-> r.distance_along_spine]),
       !.wrote_lengths =
          @ \cup (r.dst_lengths..(r.dst_lengths + (nverts - 1) * 2 - 1)),
       !.dst_lengths = @ + (nverts - 1) * 2]

\* Lines 467-472: vertex_lengths of the spine's nverts pairs.
FillLengths(r, nverts) ==
    [r EXCEPT
       !.L = WrSeq(@, r.dst_lengths,
                   [k \in 1..(nverts * 2) |-> r.distance_along_spine]),
       !.wrote_lengths =
          @ \cup (r.dst_lengths..(r.dst_lengths + nverts * 2 - 1)),
       !.dst_lengths = @ + nverts * 2]

\* A faulty u fix-up whose SEGMENT_FRACTION divides by spine_length - 1.
FixU_count_minus_one(r, nverts, spine_length, u_mode) ==
    LET invlength == FDiv(F(1), r.distance_along_spine)
        invcount == FDiv(F(1), F(spine_length - 1))
        start == r.dst_annotations - nverts * 2
    IN  IF u_mode = PAR_U_MODE_DISTANCE THEN r
        ELSE [r EXCEPT
               !.wrote_annotations = @ \cup (start..(r.dst_annotations - 1)),
               !.A = WrSeq(@, start,
               [k \in 1..(nverts * 2) |->
                  [@[start + k] EXCEPT !.u_along_curve =
                     CASE u_mode = PAR_U_MODE_NORMALIZED_DISTANCE ->
                            FMul(@, invlength)
                       [] u_mode = PAR_U_MODE_SEGMENT_INDEX ->
                            F((k - 1) \div 2)
                       [] u_mode = PAR_U_MODE_SEGMENT_FRACTION ->
                            FMul(invcount, F((k - 1) \div 2))]])]

\* Lines 474-504: the u fix-up of the nverts pairs that end at dst_annotations.
FixU(r, nverts, spine_length, u_mode) ==
    LET invlength == FDiv(F(1), r.distance_along_spine)
        invcount == FDiv(F(1), F(spine_length))
        start == r.dst_annotations - nverts * 2
    IN  IF u_mode = PAR_U_MODE_DISTANCE THEN r
        ELSE [r EXCEPT
               !.wrote_annotations = @ \cup (start..(r.dst_annotations - 1)),
               !.A = WrSeq(@, start,
               [k \in 1..(nverts * 2) |->
                  [@[start + k] EXCEPT !.u_along_curve =
                     CASE u_mode = PAR_U_MODE_NORMALIZED_DISTANCE ->
                            FMul(@, invlength)
                       [] u_mode = PAR_U_MODE_SEGMENT_INDEX ->
                            F((k - 1) \div 2)
                       [] u_mode = PAR_U_MODE_SEGMENT_FRACTION ->
                            FMul(invcount, F((k - 1) \div 2))]])]

\* A faulty end of spine whose base_index forgets the seam pair of a closed
\* spine.
SpineEnd_base_without_seam(r, spine_length, closed, u_mode) ==
    FixU(FillLengths([r EXCEPT !.base_index = @ + spine_length * 2],
                     (spine_length + (IF closed THEN 1 ELSE 0)) % 65536),
         (spine_length + (IF closed THEN 1 ELSE 0)) % 65536,
         spine_length, u_mode)

\* Lines 465-504; nverts is a uint16_t.
SpineEnd(r, spine_length, closed, u_mode) ==
    FixU(FillLengths([r EXCEPT !.base_index =
                        @ + spine_length * 2 + (IF closed THEN 2 ELSE 0)],
                     (spine_length + (IF closed THEN 1 ELSE 0)) % 65536),
         (spine_length + (IF closed THEN 1 ELSE 0)) % 65536,
         spine_length, u_mode)

\* One pass of the loop over the spines, lines 236-504.
Spine(r, spine_length, closed, cfg, V) ==
    SpineEnd(
      SeamPair(
        LastPair(
          LastOffset(
            InteriorLoop(
              FirstPair(
                FirstMiter(
                  SpineBegin(r, spine_length, cfg.thickness, V),
                  closed, cfg.thickness, V),
                V),
              spine_length, cfg.thickness, cfg.wireframe, V),
            closed, cfg.thickness, V),
          cfg.wireframe, V),
        closed, cfg.wireframe),
      spine_length, closed, cfg.u_mode)

\* Lines 235-505.
RECURSIVE SpineLoop(_, _, _, _, _)
SpineLoop(r, spine, spines, cfg, V) ==
    IF ~(spine < spines.num_spines) THEN r
    ELSE SpineLoop(Spine(r, spines.spine_lengths[spine + 1], spines.closed,
                         cfg, V),
                   spine + 1, spines, cfg, V)

\* The sizing loop, lines 204-215: ok is FALSE when the assertion of line 208
\* fails, with the counts as they stand at that point.
RECURSIVE SizeLoop(_, _, _)
SizeLoop(acc, spine, spines) ==
    IF ~(spine < spines.num_spines) THEN acc
    ELSE IF ~(spines.spine_lengths[spine + 1] > 1)
    THEN [acc EXCEPT !.ok = FALSE]
    ELSE SizeLoop(
           [acc EXCEPT
              !.num_vertices = @ + 2 * spines.spine_lengths[spine + 1]
                                 + (IF spines.closed THEN 2 ELSE 0),
              !.num_triangles = @ + 2 * (spines.spine_lengths[spine + 1] - 1)
                                  + (IF spines.closed THEN 2 ELSE 0)],
           spine + 1, spines)

\* par_streamlines_mesh, as PAR_CALLOC leaves it in a new context.
ArrayFields == {"vertex_positions", "vertex_annotations", "vertex_lengths",
                "triangle_indices"}
ZeroMesh ==
    [num_vertices |-> 0, num_triangles |-> 0,
     vertex_positions |-> NullArray, vertex_annotations |-> NullArray,
     vertex_lengths |-> NullArray, triangle_indices |-> NullArray]

IndPerTri(wireframe) == IF wireframe THEN 4 ELSE 3

\* Lines 204-225: the counts, then the four arrays cleared and resized.
Reserve(mesh, size, ind_per_tri) ==
    [mesh EXCEPT
       !.num_vertices = size.num_vertices,
       !.num_triangles = size.num_triangles,
       !.vertex_lengths =
          pa_add(pa_clear(@),
                 size.num_vertices, "vertex_lengths"),
       !.vertex_annotations =
          pa_add(pa_clear(@),
                 size.num_vertices, "vertex_annotations"),
       !.vertex_positions =
          pa_add(pa_clear(@),
                 size.num_vertices, "vertex_positions"),
       !.triangle_indices =
          pa_add(pa_clear(@),
                 ind_per_tri * size.num_triangles, "triangle_indices")]

\* Lines 227-233: the cursors at the start of the arrays.
Cursors(mesh) ==
    [P |-> mesh.vertex_positions.a, A |-> mesh.vertex_annotations.a,
     L |-> mesh.vertex_lengths.a, I |-> mesh.triangle_indices.a,
     reads |-> {}, wrote_positions |-> {}, wrote_annotations |-> {},
     wrote_lengths |-> {}, wrote_indices |-> {},
     src_position |-> 0, dst_positions |-> 0, dst_annotations |-> 0,
     dst_lengths |-> 0, dst_indices |-> 0, base_index |-> 0,
     segment_index |-> 0, segment_length |-> F(0), nx |-> F(0), ny |-> F(0),
     ex |-> F(0), ey |-> F(0), pnx |-> F(0), pny |-> F(0),
     first_src_position |-> Position(F(0), F(0)),
     last_src_position |-> Position(F(0), F(0)),
     first_dst_positions |-> << Position(F(0), F(0)), Position(F(0), F(0)) >>,
     distance_along_spine |-> F(0)]

\* Faulty final assertions that do not check how many input vertices were read.
FinalAsserts_without_src(r, mesh, spines, ind_per_tri) ==
    /\ r.dst_annotations = mesh.num_vertices
    /\ r.dst_positions = mesh.num_vertices
    /\ r.dst_indices = mesh.num_triangles * ind_per_tri

\* Lines 507-511.
FinalAsserts(r, mesh, spines, ind_per_tri) ==
    /\ r.src_position = spines.num_vertices
    /\ r.dst_annotations = mesh.num_vertices
    /\ r.dst_positions = mesh.num_vertices
    /\ r.dst_indices = mesh.num_triangles * ind_per_tri

\* What a draw_lines call did to memory: the capacity of the four arrays when
\* lines 217-225 have resized them, the offsets read and stored to by lines
\* 235-505, and the cursors as line 507 finds them.
NoAccesses ==
    [capacity |-> [f \in ArrayFields |-> 0],
     reads |-> {}, wrote_positions |-> {}, wrote_annotations |-> {},
     wrote_lengths |-> {}, wrote_indices |-> {},
     src_position |-> 0, dst_positions |-> 0, dst_annotations |-> 0,
     dst_lengths |-> 0, dst_indices |-> 0]
Accesses(mesh, r) ==
    [capacity |-> [f \in ArrayFields |-> mesh[f].m],
     reads |-> r.reads, wrote_positions |-> r.wrote_positions,
     wrote_annotations |-> r.wrote_annotations,
     wrote_lengths |-> r.wrote_lengths, wrote_indices |-> r.wrote_indices,
     src_position |-> r.src_position, dst_positions |-> r.dst_positions,
     dst_annotations |-> r.dst_annotations, dst_lengths |-> r.dst_lengths,
     dst_indices |-> r.dst_indices]

\* Lines 235-513 on the resized mesh.
Generate(mesh, r, spines, ind_per_tri) ==
    [aborted |-> ~FinalAsserts(r, mesh, spines, ind_per_tri),
     mesh |-> [mesh EXCEPT !.vertex_lengths.a = r.L,
                           !.vertex_annotations.a = r.A,
                           !.vertex_positions.a = r.P,
                           !.triangle_indices.a = r.I],
     accesses |-> Accesses(mesh, r)]

Sized(mesh, size, cfg, spines, V) ==
    IF ~size.ok
    THEN [aborted |-> TRUE,
          mesh |-> [mesh EXCEPT !.num_vertices = size.num_vertices,
                                !.num_triangles = size.num_triangles],
          accesses |-> NoAccesses]
    ELSE Generate(Reserve(mesh, size, IndPerTri(cfg.wireframe)),
                  SpineLoop(Cursors(Reserve(mesh, size,
                                            IndPerTri(cfg.wireframe))),
                            0, spines, cfg, V),
                  spines, IndPerTri(cfg.wireframe))

\* par_streamlines_draw_lines on the mesh of a context with config cfg: the
\* mesh as the call leaves it, whether an assertion failed, and the accesses
\* the call made.
draw_lines(mesh, cfg, spines, V) ==
    Sized(mesh,
          SizeLoop([ok |-> TRUE, num_vertices |-> 0, num_triangles |-> 0],
                   0, spines),
          cfg, spines, V)

\* ------------------------------------------------------------------ state
VARIABLES
    vertices,   \* the caller's vertex array, which spines.vertices points at
    pc,         \* "init", "live" (a context exists), "destroyed", "aborted"
    context,    \* the par_streamlines_context: config and result
    heap,       \* the heap blocks the library holds: "context", array fields
    call,       \* the most recent API call and what it returned
    spines,     \* the argument of the most recent draw_lines call
    accesses,   \* the memory accesses of the most recent draw_lines call
    ndraws      \* the number of draw calls made

vars == <<vertices, pc, context, heap, call, spines, accesses, ndraws>>

NoContext == [config |-> [thickness |-> F(0), wireframe |-> FALSE,
                          u_mode |-> PAR_U_MODE_NORMALIZED_DISTANCE],
              result |-> ZeroMesh]

\* The caller's polylines: round the cycle of Points, every step-th point,
\* from Points[step].  step = 0 repeats one point (segments of length 0).
VertexArrays ==
    {[i \in 1..MaxVerts |-> Points[((step * i) % Len(Points)) + 1]] :
        step \in 0..(Len(Points) - 1)}

Init ==
    /\ vertices \in VertexArrays
    /\ pc = "init"
    /\ context = NoContext
    /\ heap = {}
    /\ call = [op |-> "none", ret |-> "none"]
    /\ spines = NoSpines
    /\ accesses = NoAccesses
    /\ ndraws = 0

par_streamlines_create_context(config) ==
    /\ pc = "init"
    /\ pc' = "live"
    /\ context' = [config |-> config, result |-> ZeroMesh]
    /\ heap' = heap \cup {"context"}
    /\ call' = [op |-> "create_context", ret |-> "context"]
    /\ UNCHANGED <<vertices, spines, accesses, ndraws>>

par_streamlines_destroy_context ==
    /\ pc = "live"
    /\ pc' = "destroyed"
    /\ heap' = pa_free(pa_free(pa_free(heap,
                  context.result.vertex_lengths, "vertex_lengths"),
                  context.result.vertex_annotations, "vertex_annotations"),
                  context.result.vertex_positions, "vertex_positions")
               \ {"context"}
    /\ call' = [op |-> "destroy_context", ret |-> "void"]
    /\ UNCHANGED <<vertices, context, spines, accesses, ndraws>>

\* An assertion failure aborts the process: its heap is gone with it.
par_streamlines_draw_lines(s) ==
    /\ pc = "live"
    /\ ndraws < MaxDraws
    /\ ndraws' = ndraws + 1
    /\ \E out \in {draw_lines(context.result, context.config, s, vertices)} :
         IF out.aborted
         THEN /\ pc' = "aborted"
              /\ context' = NoContext
              /\ heap' = {}
              /\ call' = [op |-> "draw_lines", ret |-> "abort"]
              /\ accesses' = NoAccesses
         ELSE /\ pc' = pc
              /\ context' = [context EXCEPT !.result = out.mesh]
              /\ heap' = heap \cup {f \in ArrayFields : out.mesh[f].alloc}
              /\ call' = [op |-> "draw_lines", ret |-> "mesh"]
              /\ accesses' = out.accesses
    /\ spines' = s
    /\ UNCHANGED vertices

par_streamlines_draw_curves_cubic ==
    /\ pc = "live"
    /\ ndraws < MaxDraws
    /\ ndraws' = ndraws + 1
    /\ call' = [op |-> "draw_curves_cubic", ret |-> "mesh"]
    /\ UNCHANGED <<vertices, pc, context, heap, spines, accesses>>

par_streamlines_draw_curves_quadratic ==
    /\ pc = "live"
    /\ ndraws < MaxDraws
    /\ ndraws' = ndraws + 1
    /\ call' = [op |-> "draw_curves_quadratic", ret |-> "mesh"]
    /\ UNCHANGED <<vertices, pc, context, heap, spines, accesses>>

par_streamlines_draw_streamlines ==
    /\ pc = "live"
    /\ ndraws < MaxDraws
    /\ ndraws' = ndraws + 1
    /\ call' = [op |-> "draw_streamlines", ret |-> "mesh"]
    /\ UNCHANGED <<vertices, pc, context, heap, spines, accesses>>

Next ==
    \/ \E config \in Configs : par_streamlines_create_context(config)
    \/ par_streamlines_destroy_context
    \/ \E s \in SpineLists : par_streamlines_draw_lines(s)
    \/ par_streamlines_draw_curves_cubic
    \/ par_streamlines_draw_curves_quadratic
    \/ par_streamlines_draw_streamlines

Spec == Init /\ [][Next]_vars

\* ----------------------------------------------------------------- claims
\* The mesh of the context, and the states a draw_lines call ends in.
M == context.result
AfterDrawLines == call.op = "draw_lines"
Returned == call = [op |-> "draw_lines", ret |-> "mesh"]

\* A spine list is valid when every spine has more than one vertex and the
\* spine lengths sum to num_vertices.
Valid(s) ==
    /\ \A k \in 1..s.num_spines : s.spine_lengths[k] > 1
    /\ SumSeq(s.spine_lengths) = s.num_vertices

\* Spine k of the list s (k from 1): its vertex pairs, the index in the
\* caller's array of its first vertex, and the numbers of vertex pairs and of
\* triangles that the spines before it take.
Seam(s) == IF s.closed THEN 1 ELSE 0
NPairs(s, k) == s.spine_lengths[k] + Seam(s)
SrcBase(s, k) == SumSeq(SubSeq(s.spine_lengths, 1, k - 1))
PairBase(s, k) == SrcBase(s, k) + (k - 1) * Seam(s)
TriBase(s, k) == 2 * (PairBase(s, k) - (k - 1))

\* The mesh vertices of spine k, and element v (from 0) of the mesh arrays.
VerticesOf(s, k) == (2 * PairBase(s, k))..(2 * (PairBase(s, k) + NPairs(s, k)) - 1)
P(v) == M.vertex_positions.a[v + 1]
A(v) == M.vertex_annotations.a[v + 1]
L(v) == M.vertex_lengths.a[v + 1]
I(i) == M.triangle_indices.a[i + 1]
U(v) == A(v).u_along_curve
Ipt == IF context.config.wireframe THEN 4 ELSE 3

\* C1: for a valid spine list draw_lines returns a mesh whose num_vertices is
\* the sum over the spines of 2n (open) or 2n+2 (closed) and whose
\* num_triangles is the sum of 2(n-1) (open) or 2n (closed); and each spine's
\* share is emitted: its 2n (2n+2) vertices are written in its own block of
\* the three vertex arrays, and its 2(n-1) (2n) triangles are written in its
\* own block of the index array and join vertices of that spine only.
C1_Counts ==
    (AfterDrawLines /\ Valid(spines)) =>
        /\ Returned
        /\ M.num_vertices =
             SumSeq([k \in 1..spines.num_spines |->
                       IF spines.closed THEN 2 * spines.spine_lengths[k] + 2
                       ELSE 2 * spines.spine_lengths[k]])
        /\ M.num_triangles =
             SumSeq([k \in 1..spines.num_spines |->
                       IF spines.closed THEN 2 * spines.spine_lengths[k]
                       ELSE 2 * (spines.spine_lengths[k] - 1)])
        /\ pa_count(M.vertex_positions) = M.num_vertices
        /\ pa_count(M.vertex_annotations) = M.num_vertices
        /\ pa_count(M.vertex_lengths) = M.num_vertices
        /\ \A k \in 1..spines.num_spines :
             /\ \A v \in VerticesOf(spines, k) :
                  /\ v < M.num_vertices
                  /\ P(v) # IndetOf("vertex_positions")
                  /\ A(v) # IndetOf("vertex_annotations")
                  /\ L(v) # IndetOf("vertex_lengths")
             /\ \A t \in TriBase(spines, k)..(TriBase(spines, k + 1) - 1) :
                  /\ t < M.num_triangles
                  /\ \A c \in 0..(Ipt - 1) :
                       I(t * Ipt + c) \in VerticesOf(spines, k)

\* Two closed spines of two vertices each: 2 * (2 * 2 + 2) vertices and
\* 2 * (2 * 2) triangles.
C1_Witness ==
    /\ Returned /\ Valid(spines)
    /\ spines.closed /\ spines.spine_lengths = <<2, 2>>
    /\ M.num_vertices = 12 /\ M.num_triangles = 8

\* C2: after every draw_lines call that returns, every index stored in
\* triangle_indices is a vertex of the mesh (0 <= index < num_vertices), and
\* the number of indices stored is num_triangles times 3 (filled) or 4
\* (wireframe).
C2_Indices ==
    Returned =>
        /\ pa_count(M.triangle_indices) = M.num_triangles * Ipt
        /\ \A i \in 0..(pa_count(M.triangle_indices) - 1) :
             I(i) \in 0..(M.num_vertices - 1)

\* A wireframe mesh of two closed spines: 8 triangles, 32 indices, the last of
\* them the mesh's last vertex but one.
C2_Witness ==
    /\ Returned /\ context.config.wireframe /\ spines.closed
    /\ spines.num_spines = 2 /\ pa_count(M.triangle_indices) = 32
    /\ I(31) = M.num_vertices - 2

\* The true geometry of spine k of s in the caller's array V: the length of
\* the path from vertex a to vertex b of V, the total arc length (with the
\* closing segment when closed), and whether every segment has a length > 0.
RECURSIVE PathLength(_, _, _)
PathLength(V, a, b) ==
    IF a >= b THEN F(0)
    ELSE FAdd(Segment(V[a], V[a + 1]).segment_length, PathLength(V, a + 1, b))
ClosingLength(s, k, V) ==
    Segment(V[SrcBase(s, k) + s.spine_lengths[k]],
            V[SrcBase(s, k) + 1]).segment_length
ArcLength(s, k, V) ==
    FAdd(PathLength(V, SrcBase(s, k) + 1, SrcBase(s, k) + s.spine_lengths[k]),
         IF s.closed THEN ClosingLength(s, k, V) ELSE F(0))
PositiveSegments(s, k, V) ==
    /\ \A j \in 1..(s.spine_lengths[k] - 1) :
         Segment(V[SrcBase(s, k) + j],
                 V[SrcBase(s, k) + j + 1]).segment_length # F(0)
    /\ s.closed => ClosingLength(s, k, V) # F(0)

\* C3: in NORMALIZED_DISTANCE mode, for every spine (open or closed) whose
\* segments all have a positive length, u_along_curve is 0 on the spine's first
\* pair, lies between 0 and 1 on every vertex of the spine, and is 1 on the
\* spine's last emitted pair (the last vertex when open, the seam pair when
\* closed): the minimum is 0 and the maximum is 1.
C3_NormalizedRange ==
    (Returned /\ context.config.u_mode = PAR_U_MODE_NORMALIZED_DISTANCE) =>
        \A k \in 1..spines.num_spines :
            PositiveSegments(spines, k, vertices) =>
                /\ \A v \in VerticesOf(spines, k) :
                     FLeq(F(0), U(v)) /\ FLeq(U(v), F(1))
                /\ U(2 * PairBase(spines, k)) = F(0)
                /\ U(2 * PairBase(spines, k) + 1) = F(0)
                /\ U(2 * PairBase(spines, k + 1) - 2) = F(1)
                /\ U(2 * PairBase(spines, k + 1) - 1) = F(1)

\* The closed triangle (3,0), (0,4), (0,0): its sides are 5, 4 and 3, the seam
\* pair gets u = 9/14 and no vertex of the spine gets u = 1.
C3_Witness ==
    /\ Returned /\ context.config.u_mode = PAR_U_MODE_NORMALIZED_DISTANCE
    /\ spines.closed /\ spines.spine_lengths = <<3>>
    /\ vertices[1] = Points[2] /\ vertices[2] = Points[3]
    /\ vertices[3] = Points[1]
    /\ U(6) = Frac(9, 14) /\ U(7) = Frac(9, 14)
    /\ \A v \in VerticesOf(spines, 1) : U(v) # F(1)

\* C4: after draw_lines, vertex_lengths holds, for every vertex of a spine, the
\* spine's total arc length: the sum of the lengths of its n-1 segments, plus
\* the length of the closing segment (last vertex back to first) when closed.
C4_ArcLength ==
    Returned =>
        \A k \in 1..spines.num_spines :
            \A v \in VerticesOf(spines, k) :
                L(v) = ArcLength(spines, k, vertices)

\* The closed triangle (3,0), (0,4), (0,0) has arc length 5 + 4 + 3 = 12, and
\* vertex_lengths holds 5 + 4 + 5 = 14 for its eight vertices.
C4_Witness ==
    /\ Returned /\ spines.closed /\ spines.spine_lengths = <<3>>
    /\ vertices[1] = Points[2] /\ vertices[2] = Points[3]
    /\ vertices[3] = Points[1]
    /\ ArcLength(spines, 1, vertices) = F(12)
    /\ \A v \in VerticesOf(spines, 1) : L(v) = F(14)

\* The spine vertex that pair j (from 0) of spine k is placed at: vertex j of
\* the spine, and the spine's first vertex for the seam pair.
SpineVertex(s, k, j, V) == V[SrcBase(s, k) + (j % s.spine_lengths[k]) + 1]
SpineToEdge(v) == <<A(v).spine_to_edge_x, A(v).spine_to_edge_y>>

\* C5: for every vertex pair draw_lines emits, the seam pair of a closed spine
\* included, the stored spine_to_edge is the offset the pair was placed with:
\* the first vertex of the pair is the spine vertex plus its spine_to_edge, the
\* second is the spine vertex minus the spine_to_edge of the first and stores
\* the negated vector; so the seam pair's spine_to_edge is that of the spine's
\* first pair.
C5_SpineToEdge ==
    Returned =>
        \A k \in 1..spines.num_spines :
            \A j \in 0..(NPairs(spines, k) - 1) :
                LET v == 2 * (PairBase(spines, k) + j)
                    p == SpineVertex(spines, k, j, vertices)
                IN  /\ P(v) = Plus(p, A(v).spine_to_edge_x,
                                   A(v).spine_to_edge_y)
                    /\ P(v + 1) = Minus(p, A(v).spine_to_edge_x,
                                        A(v).spine_to_edge_y)
                    /\ A(v + 1).spine_to_edge_x = FNeg(A(v).spine_to_edge_x)
                    /\ A(v + 1).spine_to_edge_y = FNeg(A(v).spine_to_edge_y)
                    /\ j = spines.spine_lengths[k] =>
                         SpineToEdge(v) =
                           SpineToEdge(2 * PairBase(spines, k))

\* A closed triangle with finite offsets: the seam pair has the positions of
\* the first pair and the spine_to_edge of the last vertex's pair, which is not
\* the offset of the first pair.
C5_Witness ==
    /\ Returned /\ spines.closed /\ spines.spine_lengths = <<3>>
    /\ \A v \in VerticesOf(spines, 1) :
         IsFinite(P(v).x) /\ IsFinite(P(v).y)
    /\ P(6) = P(0) /\ P(7) = P(1)
    /\ SpineToEdge(6) = SpineToEdge(4)
    /\ SpineToEdge(6) # SpineToEdge(0)
    /\ P(6) # Plus(vertices[1], A(6).spine_to_edge_x, A(6).spine_to_edge_y)

\* C6: after destroy_context, whatever create_context and draw calls came
\* before, none of the four buffers of the context's mesh and not the context
\* itself remains allocated.
C6_DestroyFreesAll == pc = "destroyed" => heap = {}

\* A context destroyed after a draw_lines call: triangle_indices is the one
\* block that remains.
C6_Witness ==
    /\ pc = "destroyed" /\ spines # NoSpines
    /\ heap = {"triangle_indices"}

\* C7: draw_lines fails on an assertion and returns no mesh whenever some
\* spine has length <= 1 or the spine lengths do not sum to num_vertices; it
\* returns a mesh only when every length is > 1 and the lengths sum to
\* num_vertices.
C7_Asserts ==
    AfterDrawLines =>
        /\ ~Valid(spines) => (pc = "aborted" /\ call.ret = "abort")
        /\ call.ret = "mesh" => Valid(spines)

\* Two spines of lengths > 1 that sum to num_vertices + 1: the assertion on
\* src_position fails.
C7_Witness ==
    /\ AfterDrawLines /\ pc = "aborted"
    /\ \A k \in 1..spines.num_spines : spines.spine_lengths[k] > 1
    /\ spines.num_spines = 2
    /\ SumSeq(spines.spine_lengths) = spines.num_vertices + 1

\* C8 as stated: in SEGMENT_FRACTION mode both vertices of pair i (from 0) of
\* a spine of length n get u_along_curve = i / n, and for every spine, open or
\* closed, the maximum over the spine's vertices is (n-1)/n, never 1.
C8_MaxBelowOne ==
    (Returned /\ context.config.u_mode = PAR_U_MODE_SEGMENT_FRACTION) =>
        \A k \in 1..spines.num_spines :
            /\ \A j \in 0..(NPairs(spines, k) - 1) :
                 /\ U(2 * (PairBase(spines, k) + j)) =
                      Frac(j, spines.spine_lengths[k])
                 /\ U(2 * (PairBase(spines, k) + j) + 1) =
                      Frac(j, spines.spine_lengths[k])
            /\ \A v \in VerticesOf(spines, k) :
                 /\ FLeq(U(v), Frac(spines.spine_lengths[k] - 1,
                                    spines.spine_lengths[k]))
                 /\ U(v) # F(1)
            /\ \E v \in VerticesOf(spines, k) :
                 U(v) = Frac(spines.spine_lengths[k] - 1,
                             spines.spine_lengths[k])

\* C8, amended: in SEGMENT_FRACTION mode both vertices of pair i (from 0) of a
\* spine of length n get u_along_curve = i / n.  An open spine has the pairs
\* 0..n-1, so its maximum is (n-1)/n; a closed spine also has the seam pair,
\* pair n, so its maximum is n/n = 1.
C8_SegmentFraction ==
    (Returned /\ context.config.u_mode = PAR_U_MODE_SEGMENT_FRACTION) =>
        \A k \in 1..spines.num_spines :
            /\ \A j \in 0..(NPairs(spines, k) - 1) :
                 /\ U(2 * (PairBase(spines, k) + j)) =
                      Frac(j, spines.spine_lengths[k])
                 /\ U(2 * (PairBase(spines, k) + j) + 1) =
                      Frac(j, spines.spine_lengths[k])
            /\ \A v \in VerticesOf(spines, k) :
                 FLeq(U(v), IF spines.closed THEN F(1)
                            ELSE Frac(spines.spine_lengths[k] - 1,
                                      spines.spine_lengths[k]))
            /\ U(2 * PairBase(spines, k + 1) - 1) =
                 (IF spines.closed THEN F(1)
                  ELSE Frac(spines.spine_lengths[k] - 1,
                            spines.spine_lengths[k]))

\* A closed spine of three vertices: u = 0, 1/3, 2/3 and, on the seam pair, 1.
C8_Witness ==
    /\ Returned /\ context.config.u_mode = PAR_U_MODE_SEGMENT_FRACTION
    /\ spines.closed /\ spines.spine_lengths = <<3>>
    /\ U(2) = Frac(1, 3) /\ U(4) = Frac(2, 3)
    /\ U(6) = F(1) /\ U(7) = F(1)

\* What a caller may read of a mesh: the counts and the elements of the four
\* arrays in their valid ranges.
MeshView(mesh, ind_per_tri) ==
    [num_vertices |-> mesh.num_vertices,
     num_triangles |-> mesh.num_triangles,
     counts |-> <<pa_count(mesh.vertex_positions),
                  pa_count(mesh.vertex_annotations),
                  pa_count(mesh.vertex_lengths),
                  pa_count(mesh.triangle_indices)>>,
     vertex_positions |->
        SubSeq(mesh.vertex_positions.a, 1, mesh.num_vertices),
     vertex_annotations |->
        SubSeq(mesh.vertex_annotations.a, 1, mesh.num_vertices),
     vertex_lengths |->
        SubSeq(mesh.vertex_lengths.a, 1, mesh.num_vertices),
     triangle_indices |->
        SubSeq(mesh.triangle_indices.a, 1, mesh.num_triangles * ind_per_tri)]

\* The mesh of a new context with the same config after one draw_lines call
\* with the input of the most recent draw_lines call, or after no call.
FreshMesh ==
    IF spines = NoSpines THEN ZeroMesh
    ELSE draw_lines(ZeroMesh, context.config, spines, vertices).mesh

\* C9: after any sequence of draw calls on a context (draw_lines with valid
\* inputs, and the draw_curves_cubic, draw_curves_quadratic and
\* draw_streamlines stubs), the counts of the mesh and the contents of its four
\* buffers in their valid ranges are those that a new context with the same
\* config produces for the most recent draw_lines input alone.
C9_NoTrace ==
    pc = "live" => MeshView(M, Ipt) = MeshView(FreshMesh, Ipt)

\* A second draw_lines call, smaller than the first: the buffers of the first
\* call are reused (their capacity exceeds the count).
C9_Witness ==
    /\ pc = "live" /\ ndraws = 2 /\ Returned
    /\ M.num_vertices = 4
    /\ M.vertex_positions.m > M.vertex_positions.n
    /\ M.vertex_positions.a[5] # IndetOf("vertex_positions")

\* The filled index stream that the claim describes: for each spine, for each
\* two consecutive vertex pairs (a0, a1), (b0, b1), the triangles (a0, a1, b0)
\* and (b0, a1, b1).
QuadFilled(a0, a1, b0, b1) == <<a0, a1, b0, b0, a1, b1>>
RECURSIVE SpineFilled(_, _)
SpineFilled(pair, npairs) ==
    IF npairs < 2 THEN <<>>
    ELSE QuadFilled(2 * pair, 2 * pair + 1, 2 * pair + 2, 2 * pair + 3)
           \o SpineFilled(pair + 1, npairs - 1)
RECURSIVE ListFilled(_, _)
ListFilled(s, k) ==
    IF k > s.num_spines THEN <<>>
    ELSE SpineFilled(PairBase(s, k), NPairs(s, k)) \o ListFilled(s, k + 1)

\* The stream f of triangles (i, j, k) with each written as (i, j, k, i).
AsWireframe(f) ==
    [n \in 1..(4 * (Len(f) \div 3)) |->
        f[3 * ((n - 1) \div 4) + (IF (n - 1) % 4 = 3 THEN 0 ELSE (n - 1) % 4)
          + 1]]

\* The index stream of draw_lines in a new context for the most recent input,
\* filled or wireframe.
IndexStream(wireframe) ==
    SubSeq(draw_lines(ZeroMesh, [context.config EXCEPT !.wireframe = wireframe],
                      spines, vertices).mesh.triangle_indices.a,
           1, M.num_triangles * IndPerTri(wireframe))

\* The index stream of the mesh of the context.
MeshStream == SubSeq(M.triangle_indices.a, 1, M.num_triangles * Ipt)

\* C10: for the same spine list the wireframe index stream is the filled
\* index stream with every triangle (i, j, k) written as (i, j, k, i); the
\* filled stream holds, for each two consecutive vertex pairs (a0, a1),
\* (b0, b1) of a spine, the triangles (a0, a1, b0) and (b0, a1, b1); so the
\* wireframe stream has 4/3 as many indices.  The mesh of the context gives
\* the stream of its own mode, a new context the stream of the other mode.
C10_Wireframe ==
    Returned =>
        \E filled \in {IF context.config.wireframe THEN IndexStream(FALSE)
                       ELSE MeshStream} :
        \E wire \in {IF context.config.wireframe THEN MeshStream
                     ELSE IndexStream(TRUE)} :
            /\ filled = ListFilled(spines, 1)
            /\ wire = AsWireframe(filled)
            /\ 3 * Len(wire) = 4 * Len(filled)

\* A wireframe mesh of a closed spine of three vertices: six triangles, the
\* first written (0, 1, 2, 0).
C10_Witness ==
    /\ Returned /\ context.config.wireframe
    /\ spines.closed /\ spines.spine_lengths = <<3>>
    /\ M.num_triangles = 6
    /\ SubSeq(M.triangle_indices.a, 1, 8) = <<0, 1, 2, 0, 2, 1, 3, 2>>

\* C11: for every valid spine list, draw_lines sizes its four buffers once,
\* before the first vertex is written, and does not grow them while it
\* generates: the capacities the call ends with are those that lines 217-225
\* left, and they hold the mesh.  It reads the caller's vertices only at
\* offsets in 0..num_vertices-1.  It stores to every slot 0..mesh.num_vertices-1
\* of vertex_positions, vertex_annotations and vertex_lengths and to every slot
\* 0..num_triangles*indices_per_triangle-1 of triangle_indices, and to no other
\* slot.  So the cursors end at the sizes of the buffers and the assertions of
\* lines 507-511 hold: the call returns.
C11_Buffers ==
    (AfterDrawLines /\ Valid(spines)) =>
        /\ Returned
        /\ \A f \in ArrayFields :
             /\ M[f].alloc
             /\ M[f].m = accesses.capacity[f]
             /\ Len(M[f].a) = accesses.capacity[f]
             /\ pa_count(M[f]) <= accesses.capacity[f]
             /\ pa_count(M[f]) =
                  (IF f = "triangle_indices" THEN M.num_triangles * Ipt
                   ELSE M.num_vertices)
        /\ accesses.reads \subseteq 0..(spines.num_vertices - 1)
        /\ accesses.wrote_positions = 0..(M.num_vertices - 1)
        /\ accesses.wrote_annotations = 0..(M.num_vertices - 1)
        /\ accesses.wrote_lengths = 0..(M.num_vertices - 1)
        /\ accesses.wrote_indices = 0..(M.num_triangles * Ipt - 1)
        /\ accesses.src_position = spines.num_vertices
        /\ accesses.dst_positions = M.num_vertices
        /\ accesses.dst_annotations = M.num_vertices
        /\ accesses.dst_lengths = M.num_vertices
        /\ accesses.dst_indices = M.num_triangles * Ipt

\* A second draw_lines call, of two closed spines in wireframe, into buffers
\* whose capacity the sizing doubled: all four input vertices are read, the 12
\* vertex slots and 32 index slots are written and the other slots are not.
C11_Witness ==
    /\ Returned /\ Valid(spines) /\ ndraws = 2
    /\ context.config.wireframe
    /\ spines.closed /\ spines.spine_lengths = <<2, 2>>
    /\ accesses.reads = 0..3
    /\ accesses.wrote_positions = 0..11
    /\ accesses.wrote_indices = 0..31
    /\ accesses.capacity["vertex_positions"] = 24
    /\ accesses.capacity["triangle_indices"] = 64

=============================================================================
